---- MODULE Spec2Model ----
(***************************************************************************)
(* init-schema: a schema dump is classified statement by statement into a  *)
(* catalog of StatementLocation entities (parse.rs), every entity is given *)
(* a file path (locations.rs) and its statement is appended to that file   *)
(* unless the file already contains it (write.rs); main.rs drives the      *)
(* three steps.                                                            *)
(*                                                                         *)
(* Text is a sequence of chunks (strings): a chunk stands for a run of     *)
(* characters of the real text (a keyword phrase, an identifier, a         *)
(* literal's body, a quote, a semicolon, a line break).  Substring search, *)
(* splitting and trimming work on chunks as the code's work on chars.      *)
(* A path is the sequence of its components below the output directory.    *)
(***************************************************************************)
EXTENDS Naturals, Sequences, FiniteSets, TLC

VARIABLES
    dump,       \* main.rs:99   the statements pg_query::split_with_parser yields
    pos,        \* parse.rs:14  number of statements get_nodes has handed to parse
    nodes,      \* parse.rs:9   the catalog, Vec<StatementLocation>
    pc,         \* where the run is: "classify", "write", "done", "panic"
    err,        \* the panic message of an aborted run, "" otherwise
    fs,         \* the files below out_dir: path -> content
    dirs,       \* the directories below out_dir (create_dir_all, remove_dir_all)
    idx,        \* write.rs:11  number of entities the writer's iterator has consumed
    ret,        \* write.rs:43  the paths collected for the returned Vec<PathBuf>
    wrote,      \* write.rs:34  per consumed entity: did the writer append it
    run,        \* number of the current call of write_nodes
    fs0         \* the files below out_dir when the run started

vars == <<dump, pos, nodes, pc, err, fs, dirs, idx, ret, wrote, run, fs0>>

(***************************************************************************)
(* Bounds                                                                  *)
(***************************************************************************)
MaxDump == 3        \* statements in a dump
MaxNodes == 3       \* entities in a catalog handed directly to write_nodes
MaxRuns == 2        \* consecutive calls of write_nodes on one catalog
MaxStack == 3       \* nested calls of parse the stack has room for

(***************************************************************************)
(* Text                                                                    *)
(***************************************************************************)
\* A byte that is not valid UTF-8; only a file found on disk can hold it.
BAD == "\\xFF"
NL == "\n"

\* str::contains
Contains(hay, needle) ==
    \E i \in 0..Len(hay) :
        /\ i + Len(needle) <= Len(hay)
        /\ SubSeq(hay, i + 1, i + Len(needle)) = needle

\* fs::read_to_string fails on content that is not UTF-8
ValidUtf8(bytes) == \A i \in 1..Len(bytes) : bytes[i] # BAD

IsPrefix(a, b) == Len(a) <= Len(b) /\ SubSeq(b, 1, Len(a)) = a

ensure_semicolon_never(s) == s

ensure_semicolon(s) ==
    IF Len(s) > 0 /\ s[Len(s)] = ";" THEN s ELSE s \o <<";">>

\* format!("\"{}\"", ident)
Quoted(ident) == "\"" \o ident \o "\""

(***************************************************************************)
(* Entities (locations.rs)                                                 *)
(***************************************************************************)
Schema(name, text) == [kind |-> "Schema", name |-> name, sql |-> text]
Table(schema, name, text) ==
    [kind |-> "Table", schema |-> schema, name |-> name, sql |-> text]
Function(schema, name, text) ==
    [kind |-> "Function", schema |-> schema, name |-> name, sql |-> text]
EnablePolicy(schema, table, text) ==
    [kind |-> "EnablePolicy", schema |-> schema, table |-> table, sql |-> text]
Policy(schema, name, table, text) ==
    [kind |-> "Policy", schema |-> schema, name |-> name, table |-> table, sql |-> text]
Index(schema, name, table, text) ==
    [kind |-> "Index", schema |-> schema, name |-> name, table |-> table, sql |-> text]
View(schema, name, text) ==
    [kind |-> "View", schema |-> schema, name |-> name, sql |-> text]
TriggerFunction(schema, name, text) ==
    [kind |-> "TriggerFunction", schema |-> schema, name |-> name, sql |-> text]
Trigger(schema, name, table, function, text) ==
    [kind |-> "Trigger", schema |-> schema, name |-> name, table |-> table,
     function |-> function, sql |-> text]
Enum(schema, name, text) ==
    [kind |-> "EnumNode", schema |-> schema, name |-> name, sql |-> text]
CompositeType(schema, name, text) ==
    [kind |-> "CompositeType", schema |-> schema, name |-> name, sql |-> text]
Setup(text) == [kind |-> "Setup", sql |-> text]
ForeignKey(constraint_name, source_schema, source_table, target_schema, target_table, text) ==
    [kind |-> "ForeignKey", constraint_name |-> constraint_name,
     source_schema |-> source_schema, source_table |-> source_table,
     target_schema |-> target_schema, target_table |-> target_table, sql |-> text]
Aggregate(schema, name, text) ==
    [kind |-> "Aggregate", schema |-> schema, name |-> name, sql |-> text]
Operator(schema, name, text) ==
    [kind |-> "Operator", schema |-> schema, name |-> name, sql |-> text]
\* table is an Option<String>: <<>> is None, <<t>> is Some(t)
Sequence(table, schema, name, text) ==
    [kind |-> "Sequence", table |-> table, schema |-> schema, name |-> name, sql |-> text]

\* StatementLocation::sql
sql(n) == ensure_semicolon(n.sql)

(***************************************************************************)
(* Path resolution (locations.rs)                                          *)
(***************************************************************************)
File(name) == name \o ".sql"

Min(S) == CHOOSE x \in S : \A y \in S : x <= y

TablePath_views(n) == <<n.schema, "views", File(n.name)>>

TablePath(n) == <<n.schema, "tables", File(n.name)>>

\* the tables of the Trigger entities, anywhere in the catalog, whose function
\* has this name (a HashSet of table names)
TriggerTables(n, cat) ==
    {cat[i].table : i \in {j \in 1..Len(cat) :
                              cat[j].kind = "Trigger" /\ cat[j].function = n.name}}

TriggerFunctionPath_any(n, cat) ==
    LET tables == TriggerTables(n, cat)
    IN  IF tables # {}
        THEN <<n.schema, "triggers", CHOOSE t \in tables : TRUE, File(n.name)>>
        ELSE <<n.schema, "triggers", File(n.name)>>

TriggerFunctionPath_entities(n, cat) ==
    LET users == {j \in 1..Len(cat) :
                    cat[j].kind = "Trigger" /\ cat[j].function = n.name}
    IN  IF Cardinality(users) = 1
        THEN <<n.schema, "triggers", cat[CHOOSE j \in users : TRUE].table, File(n.name)>>
        ELSE <<n.schema, "triggers", File(n.name)>>

TriggerFunctionPath(n, cat) ==
    LET tables == TriggerTables(n, cat)
    IN  IF Cardinality(tables) = 1
        THEN <<n.schema, "triggers", CHOOSE t \in tables : TRUE, File(n.name)>>
        ELSE <<n.schema, "triggers", File(n.name)>>

TriggerPath_by_name(n) == <<n.schema, "triggers", n.table, File(n.name)>>

TriggerPath(n) == <<n.schema, "triggers", n.table, File(n.function)>>

\* the Sequence entities of the same (schema, name) that carry a table
SequenceOwners(n, cat) ==
    {j \in 1..Len(cat) :
        /\ cat[j].kind = "Sequence"
        /\ cat[j].name = n.name /\ cat[j].schema = n.schema
        /\ cat[j].table # <<>>}

\* n.table.clone().unwrap_or_else(|| ... .next().expect(..)): <<>> when the
\* expect panics
SequenceTable_earlier(n, cat) ==
    IF n.table # <<>> THEN n.table
    ELSE LET me == {j \in 1..Len(cat) : cat[j] = n}
             before == {j \in SequenceOwners(n, cat) : \E m \in me : j < m}
         IN  IF before = {} THEN <<>> ELSE cat[Min(before)].table

SequenceTable_or_own_name(n, cat) ==
    IF n.table # <<>> THEN n.table
    ELSE LET owners == SequenceOwners(n, cat)
         IN  IF owners = {} THEN <<n.name>> ELSE cat[Min(owners)].table

SequenceTable_last(n, cat) ==
    IF n.table # <<>> THEN n.table
    ELSE LET owners == SequenceOwners(n, cat)
         IN  IF owners = {} THEN <<>>
             ELSE cat[CHOOSE j \in owners : \A k \in owners : k <= j].table

SequenceTable(n, cat) ==
    IF n.table # <<>> THEN n.table
    ELSE LET owners == SequenceOwners(n, cat)
         IN  IF owners = {} THEN <<>> ELSE cat[Min(owners)].table

\* StatementLocation::path, relative to base_dir; panic is TRUE when the
\* lookup of a Sequence's table panics
path(n, cat) ==
    LET at(p) == [panic |-> FALSE, path |-> p]
    IN  CASE n.kind = "Schema" -> at(<<n.name, "index.sql">>)
          [] n.kind = "Setup" -> at(<<"index.sql">>)
          [] n.kind = "Table" -> at(TablePath(n))
          [] n.kind = "Function" -> at(<<n.schema, "functions", File(n.name)>>)
          [] n.kind = "EnablePolicy" ->
                at(<<n.schema, "policies", n.table, "enable_rls.sql">>)
          [] n.kind = "Policy" -> at(<<n.schema, "policies", n.table, File(n.name)>>)
          [] n.kind = "Index" -> at(<<n.schema, "indices", n.table, File(n.name)>>)
          [] n.kind = "View" -> at(<<n.schema, "views", File(n.name)>>)
          [] n.kind = "TriggerFunction" -> at(TriggerFunctionPath(n, cat))
          [] n.kind = "Trigger" -> at(TriggerPath(n))
          [] n.kind = "EnumNode" -> at(<<n.schema, "enums", File(n.name)>>)
          [] n.kind = "CompositeType" -> at(<<n.schema, "types", File(n.name)>>)
          [] n.kind = "ForeignKey" ->
                at(<<n.source_schema, "fkeys", n.source_table, File(n.constraint_name)>>)
          [] n.kind = "Aggregate" -> at(<<n.schema, "aggregates", File(n.name)>>)
          [] n.kind = "Operator" -> at(<<n.schema, "operators", File(n.name)>>)
          [] n.kind = "Sequence" ->
                LET table == SequenceTable(n, cat)
                IN  IF table = <<>>
                    THEN [panic |-> TRUE, path |-> <<>>]
                    ELSE at(<<n.schema, "tables", File(table[1])>>)

(***************************************************************************)
(* The writer (write.rs)                                                   *)
(***************************************************************************)
\* the directories create_dir_all(path.parent()) makes sure exist
Ancestors(p) == {SubSeq(p, 1, k) : k \in 0..(Len(p) - 1)}

\* lines 23-31: the file exists, can be read as a string and contains content
content_exists_bytes(files, p, content) ==
    p \in DOMAIN files /\ Contains(files[p], content)

content_exists_whole(files, p, content) ==
    p \in DOMAIN files /\ ValidUtf8(files[p]) /\ files[p] = content \o <<NL>>

content_exists_file(files, p, content) == p \in DOMAIN files

content_exists_line(files, p, content) ==
    /\ p \in DOMAIN files
    /\ ValidUtf8(files[p])
    /\ \E a \in 1..Len(files[p]) :
          /\ a = 1 \/ files[p][a - 1] = NL
          /\ a + Len(content) <= Len(files[p])
          /\ SubSeq(files[p], a, a + Len(content)) = content \o <<NL>>

content_exists(files, p, content) ==
    IF p \in DOMAIN files
    THEN IF ValidUtf8(files[p]) THEN Contains(files[p], content) ELSE FALSE
    ELSE FALSE

\* lines 35-40: OpenOptions create+append, writeln!
append_truncating(files, p, content) ==
    [q \in DOMAIN files \cup {p} |->
        IF q = p THEN content \o <<NL>> ELSE files[q]]

append_prepending(files, p, content) ==
    [q \in DOMAIN files \cup {p} |->
        IF q = p
        THEN content \o <<NL>> \o (IF p \in DOMAIN files THEN files[p] ELSE <<>>)
        ELSE files[q]]

append(files, p, content) ==
    [q \in DOMAIN files \cup {p} |->
        IF q = p
        THEN (IF p \in DOMAIN files THEN files[p] ELSE <<>>) \o content \o <<NL>>
        ELSE files[q]]

write_nodes_step_touched ==
    /\ pc = "write"
    /\ idx < Len(nodes)
    /\ LET n == nodes[idx + 1]
           r == path(n, nodes)
           content == sql(n)
       IN  IF r.panic
           THEN /\ pc' = "panic"
                /\ err' = "No table found for sequence"
                /\ UNCHANGED <<fs, dirs, idx, ret, wrote>>
           ELSE /\ dirs' = dirs \cup Ancestors(r.path)
                /\ IF content_exists(fs, r.path, content)
                   THEN fs' = fs /\ wrote' = Append(wrote, FALSE) /\ ret' = ret
                   ELSE /\ fs' = append(fs, r.path, content)
                        /\ wrote' = Append(wrote, TRUE)
                        /\ ret' = Append(ret, r.path)
                /\ idx' = idx + 1
                /\ UNCHANGED <<pc, err>>
    /\ UNCHANGED <<dump, pos, nodes, run, fs0>>

write_nodes_step_eager ==
    /\ pc = "write"
    /\ idx < Len(nodes)
    /\ LET n == nodes[idx + 1]
           r == path(n, nodes)
           content == sql(n)
       IN  IF \E j \in 1..Len(nodes) : path(nodes[j], nodes).panic
           THEN /\ pc' = "panic"
                /\ err' = "No table found for sequence"
                /\ UNCHANGED <<fs, dirs, idx, ret, wrote>>
           ELSE /\ dirs' = dirs \cup Ancestors(r.path)
                /\ IF content_exists(fs, r.path, content)
                   THEN fs' = fs /\ wrote' = Append(wrote, FALSE)
                   ELSE fs' = append(fs, r.path, content) /\ wrote' = Append(wrote, TRUE)
                /\ ret' = Append(ret, r.path)
                /\ idx' = idx + 1
                /\ UNCHANGED <<pc, err>>
    /\ UNCHANGED <<dump, pos, nodes, run, fs0>>

\* one turn of the closure of write_nodes on the next entity of the catalog
write_nodes_step ==
    /\ pc = "write"
    /\ idx < Len(nodes)
    /\ LET n == nodes[idx + 1]
           r == path(n, nodes)
           content == sql(n)
       IN  IF r.panic
           THEN /\ pc' = "panic"
                /\ err' = "No table found for sequence"
                /\ UNCHANGED <<fs, dirs, idx, ret, wrote>>
           ELSE /\ dirs' = dirs \cup Ancestors(r.path)
                /\ IF content_exists(fs, r.path, content)
                   THEN fs' = fs /\ wrote' = Append(wrote, FALSE)
                   ELSE fs' = append(fs, r.path, content) /\ wrote' = Append(wrote, TRUE)
                /\ ret' = Append(ret, r.path)
                /\ idx' = idx + 1
                /\ UNCHANGED <<pc, err>>
    /\ UNCHANGED <<dump, pos, nodes, run, fs0>>

\* the iterator is exhausted: collect() returns the paths
write_nodes_return ==
    /\ pc = "write"
    /\ idx = Len(nodes)
    /\ pc' = "done"
    /\ UNCHANGED <<dump, pos, nodes, err, fs, dirs, idx, ret, wrote, run, fs0>>

\* write_nodes is called again with the same catalog and out_dir
write_nodes_again ==
    /\ pc = "done"
    /\ run < MaxRuns
    /\ run' = run + 1
    /\ pc' = "write"
    /\ idx' = 0
    /\ ret' = <<>>
    /\ wrote' = <<>>
    /\ UNCHANGED <<dump, pos, nodes, err, fs, dirs, fs0>>

(***************************************************************************)
(* The parser the classifier calls (parse.rs parse_sql, pg_query::parse):  *)
(* the syntax tree of the statement forms the model's dumps are made of.   *)
(***************************************************************************)
WS == {NL, " "}

ParseError == [type |-> "ParseError"]

IndexOf(s, c) == Min({i \in 1..Len(s) : s[i] = c})

\* the commands of an ALTER TABLE: the chunks after the table name, cut at
\* the commas outside string literals; ok is FALSE on an unterminated literal
RECURSIVE SplitCmds(_, _, _, _, _)
SplitCmds(toks, i, inStr, cur, acc) ==
    IF i > Len(toks)
    THEN [ok |-> ~inStr, segs |-> Append(acc, cur)]
    ELSE LET c == toks[i]
         IN  IF c = "'" THEN SplitCmds(toks, i + 1, ~inStr, Append(cur, c), acc)
             ELSE IF inStr THEN SplitCmds(toks, i + 1, inStr, Append(cur, c), acc)
             ELSE IF c \in WS THEN SplitCmds(toks, i + 1, inStr, cur, acc)
             ELSE IF c = "," THEN SplitCmds(toks, i + 1, inStr, <<>>, Append(acc, cur))
             ELSE SplitCmds(toks, i + 1, inStr, Append(cur, c), acc)

\* one AlterTableCmd, or ParseError
AlterTableCmd(seg) ==
    IF Len(seg) = 0 THEN ParseError
    ELSE IF seg[1] = "ADD CONSTRAINT"
    THEN IF Len(seg) = 3 /\ seg[3] \in {"PRIMARY KEY", "UNIQUE", "EXCLUDE"}
         THEN [type |-> "AlterTableCmd", subtype |-> "AtAddConstraint",
               conname |-> seg[2],
               contype |-> CASE seg[3] = "PRIMARY KEY" -> "ConstrPrimary"
                             [] seg[3] = "UNIQUE" -> "ConstrUnique"
                             [] seg[3] = "EXCLUDE" -> "ConstrExclusion"]
         ELSE IF Len(seg) >= 4 /\ seg[3] = "CHECK"
                 /\ \A k \in 4..Len(seg) :
                        seg[k] = "ADD CONSTRAINT" =>
                            Cardinality({a \in 4..(k - 1) : seg[a] = "'"}) % 2 = 1
         THEN [type |-> "AlterTableCmd", subtype |-> "AtAddConstraint",
               conname |-> seg[2], contype |-> "ConstrCheck"]
         ELSE IF Len(seg) = 5 /\ seg[3] = "FOREIGN KEY"
         THEN [type |-> "AlterTableCmd", subtype |-> "AtAddConstraint",
               conname |-> seg[2], contype |-> "ConstrForeign",
               pktable |-> [schemaname |-> seg[4], relname |-> seg[5]]]
         ELSE ParseError
    ELSE IF seg[1] = "OWNER TO" /\ Len(seg) = 2
    THEN [type |-> "AlterTableCmd", subtype |-> "AtChangeOwner"]
    ELSE IF seg = <<"ENABLE ROW LEVEL SECURITY">>
    THEN [type |-> "AlterTableCmd", subtype |-> "AtEnableRowSecurity"]
    ELSE IF seg[1] = "ALTER COLUMN" /\ Len(seg) = 4 /\ seg[3] = "SET DEFAULT"
    THEN [type |-> "AlterTableCmd", subtype |-> "AtColumnDefault"]
    ELSE IF seg[1] = "DROP COLUMN" /\ Len(seg) = 2
    THEN [type |-> "AlterTableCmd", subtype |-> "AtDropColumn"]
    ELSE ParseError

AlterTableStmt(text) ==
    IF Len(text) < 4 THEN ParseError
    ELSE LET s == SplitCmds(SubSeq(text, 4, Len(text)), 1, FALSE, <<>>, <<>>)
             cmds == [k \in 1..Len(s.segs) |-> AlterTableCmd(s.segs[k])]
         IN  IF ~s.ok \/ \E k \in 1..Len(cmds) : cmds[k] = ParseError
             THEN ParseError
             ELSE [type |-> "AlterTableStmt",
                   relation |-> [schemaname |-> text[2], relname |-> text[3]],
                   cmds |-> cmds]

\* COMMENT ON <what> <name...> IS '<comment>'
CommentStmt(text, objtype, nnames) ==
    IF Len(text) = nnames + 5 /\ text[nnames + 2] = "IS"
       /\ text[nnames + 3] = "'" /\ text[nnames + 5] = "'"
    THEN [type |-> "CommentStmt", objtype |-> objtype,
          object |-> SubSeq(text, 2, nnames + 1), comment |-> text[nnames + 4]]
    ELSE ParseError

\* ALTER <what> <name...> OWNER TO <role>: the object type of the statement
OwnerTarget ==
    [h \in {"ALTER FUNCTION", "ALTER AGGREGATE", "ALTER OPERATOR", "ALTER SCHEMA",
            "ALTER TYPE", "ALTER DOMAIN"} |->
        CASE h = "ALTER FUNCTION" -> "ObjectFunction"
          [] h = "ALTER AGGREGATE" -> "ObjectAggregate"
          [] h = "ALTER OPERATOR" -> "ObjectOperator"
          [] h = "ALTER SCHEMA" -> "ObjectSchema"
          [] h = "ALTER TYPE" -> "ObjectType"
          [] h = "ALTER DOMAIN" -> "ObjectDomain"]

\* CREATE <what> <name...> (<definition>): the kind of the DefineStmt
DefineKind ==
    [h \in {"CREATE AGGREGATE", "CREATE OPERATOR", "CREATE COLLATION"} |->
        CASE h = "CREATE AGGREGATE" -> "ObjectAggregate"
          [] h = "CREATE OPERATOR" -> "ObjectOperator"
          [] h = "CREATE COLLATION" -> "ObjectCollation"]

\* the root node of the parsed statement
parse_sql(text) ==
    IF Len(text) = 0 THEN ParseError
    ELSE LET head == text[1]
             n == Len(text)
         IN  CASE head = "CREATE SCHEMA" /\ n = 2 ->
                    [type |-> "CreateSchemaStmt", schemaname |-> text[2]]
               [] head = "CREATE TABLE" /\ n = 4 ->
                    [type |-> "CreateStmt",
                     relation |-> [schemaname |-> text[2], relname |-> text[3]]]
               [] head = "COMMENT ON TABLE" -> CommentStmt(text, "ObjectTable", 2)
               [] head = "COMMENT ON VIEW" -> CommentStmt(text, "ObjectView", 2)
               [] head = "COMMENT ON COLUMN" -> CommentStmt(text, "ObjectColumn", 3)
               [] head = "COMMENT ON FUNCTION" -> CommentStmt(text, "ObjectFunction", 2)
               [] head = "COMMENT ON SCHEMA" -> CommentStmt(text, "ObjectSchema", 1)
               [] head = "COMMENT ON TYPE" -> CommentStmt(text, "ObjectType", 2)
               [] head = "DROP TABLE" /\ n = 3 -> [type |-> "DropStmt"]
               [] head = "CREATE SEQUENCE" /\ n = 3 ->
                    [type |-> "CreateSeqStmt",
                     sequence |-> [schemaname |-> text[2], relname |-> text[3]]]
               [] head = "ALTER SEQUENCE" /\ n = 7 /\ text[4] = "OWNED BY" ->
                    [type |-> "AlterSeqStmt",
                     sequence |-> [schemaname |-> text[2], relname |-> text[3]],
                     owned_by |-> SubSeq(text, 5, 7)]
               [] head = "ALTER TABLE" -> AlterTableStmt(text)
               [] head = "CREATE FUNCTION" /\ n = 6 /\ text[4] = "RETURNS" ->
                    [type |-> "CreateFunctionStmt", funcname |-> SubSeq(text, 2, 3),
                     return_type |-> text[5]]
               [] head = "CREATE TRIGGER" /\ n = 8 /\ text[3] = "ON"
                    /\ text[6] = "EXECUTE FUNCTION" ->
                    [type |-> "CreateTrigStmt", trigname |-> text[2],
                     relation |-> [schemaname |-> text[4], relname |-> text[5]],
                     funcname |-> SubSeq(text, 7, 8)]
               [] head = "SET" /\ n = 2 ->
                    [type |-> "VariableSetStmt", kind |-> "VarSetValue"]
               [] head = "RESET ALL" /\ n = 1 ->
                    [type |-> "VariableSetStmt", kind |-> "VarResetAll"]
               [] head = "SELECT" /\ n >= 2 -> [type |-> "SelectStmt"]
               [] head = "GRANT ON TABLE" /\ n = 5 /\ text[4] = "TO" ->
                    [type |-> "GrantStmt", objtype |-> "ObjectTable",
                     object |-> [schemaname |-> text[2], relname |-> text[3]]]
               [] head = "GRANT ON SEQUENCE" /\ n = 5 /\ text[4] = "TO" ->
                    [type |-> "GrantStmt", objtype |-> "ObjectSequence",
                     object |-> [schemaname |-> text[2], relname |-> text[3]]]
               [] head = "GRANT ON FUNCTION" /\ n >= 4 /\ text[n - 1] = "TO" ->
                    [type |-> "GrantStmt", objtype |-> "ObjectFunction",
                     objname |-> SubSeq(text, 2, n - 2)]
               [] head = "GRANT ON SCHEMA" /\ n = 4 /\ text[3] = "TO" ->
                    [type |-> "GrantStmt", objtype |-> "ObjectSchema",
                     object |-> text[2]]
               [] head = "GRANT ON TYPE" /\ n = 5 /\ text[4] = "TO" ->
                    [type |-> "GrantStmt", objtype |-> "ObjectType"]
               [] head \in DOMAIN OwnerTarget /\ n >= 4 /\ text[n - 1] = "OWNER TO" ->
                    [type |-> "AlterOwnerStmt", object_type |-> OwnerTarget[head],
                     objname |-> SubSeq(text, 2, n - 2)]
               [] head \in DOMAIN DefineKind /\ n >= 3 ->
                    [type |-> "DefineStmt", kind |-> DefineKind[head],
                     defnames |-> SubSeq(text, 2, n - 1)]
               [] head = "CREATE VIEW" /\ n = 5 /\ text[4] = "AS" ->
                    [type |-> "ViewStmt",
                     view |-> [schemaname |-> text[2], relname |-> text[3]]]
               [] OTHER -> ParseError

(***************************************************************************)
(* The classifier (parse.rs)                                               *)
(***************************************************************************)
\* find_node_by_name with the matcher of one entity kind
find_node_by_name(cat, schema, name, kind) ==
    \E i \in 1..Len(cat) :
        cat[i].kind = kind /\ cat[i].name = name /\ cat[i].schema = schema

find_table(cat, schema, name) == find_node_by_name(cat, schema, name, "Table")
find_view_never(cat, schema, name) == FALSE
find_view(cat, schema, name) == find_node_by_name(cat, schema, name, "View")
find_enum(cat, schema, name) == find_node_by_name(cat, schema, name, "EnumNode")
find_composite_type(cat, schema, name) ==
    find_node_by_name(cat, schema, name, "CompositeType")
find_trigger_function_never(cat, schema, name) == FALSE
find_function_always(cat, schema, name) == TRUE
find_trigger_function(cat, schema, name) ==
    find_node_by_name(cat, schema, name, "TriggerFunction")
find_function(cat, schema, name) == find_node_by_name(cat, schema, name, "Function")
find_aggregate(cat, schema, name) == find_node_by_name(cat, schema, name, "Aggregate")

get_schema_or_default(names) == IF Len(names) > 1 THEN names[1] ELSE "public"

Last(s) == s[Len(s)]

\* str::split
RECURSIVE Split(_, _)
Split(s, pat) ==
    IF \E i \in 1..Len(s) : s[i] = pat
    THEN LET i == IndexOf(s, pat)
         IN  <<SubSeq(s, 1, i - 1)>> \o Split(SubSeq(s, i + 1, Len(s)), pat)
    ELSE <<s>>

\* str::trim_end
RECURSIVE trim_end(_)
trim_end(s) ==
    IF Len(s) > 0 /\ Last(s) \in WS THEN trim_end(SubSeq(s, 1, Len(s) - 1)) ELSE s

\* str::trim_end_matches(',')
RECURSIVE trim_end_matches_comma(_)
trim_end_matches_comma(s) ==
    IF Len(s) > 0 /\ Last(s) = ","
    THEN trim_end_matches_comma(SubSeq(s, 1, Len(s) - 1))
    ELSE s

\* the texts the comment branches format
comment_on_table(what, schema, name, comment) ==
    <<"COMMENT ON " \o what, Quoted(schema), Quoted(name), "IS", "'", comment, "'", ";">>

comment_on_column(schema, table, column, comment) ==
    <<"COMMENT ON COLUMN", Quoted(schema), Quoted(table), Quoted(column),
      "IS", "E'", comment, "'", ";">>

\* format!("COMMENT ON {} \"{}\".\"{}\" IS E'{}';", ..) of the function and
\* type comments, format!("COMMENT ON SCHEMA \"{}\" IS E'{}';", ..)
comment_on_escaped(what, schema, name, comment) ==
    <<"COMMENT ON " \o what, Quoted(schema), Quoted(name), "IS", "E'", comment, "'", ";">>

comment_on_schema(schema_name, comment) ==
    <<"COMMENT ON SCHEMA", Quoted(schema_name), "IS", "E'", comment, "'", ";">>

pushed_first(cat, n) == [nodes |-> <<n>> \o cat, err |-> ""]

pushed(cat, n) == [nodes |-> Append(cat, n), err |-> ""]
panic(cat, msg) == [nodes |-> cat, err |-> msg]

\* lines 77-107: COMMENT ON FUNCTION
function_comment(cat, items, comment) ==
    IF Len(items) # 2 THEN panic(cat, "Expected 2 items in function comment list")
    ELSE LET schema == items[1]
             function_name == items[2]
             t == comment_on_escaped("FUNCTION", schema, function_name, comment)
         IN  IF find_trigger_function(cat, schema, function_name)
             THEN pushed(cat, TriggerFunction(schema, function_name, t))
             ELSE IF find_function(cat, schema, function_name)
             THEN pushed(cat, Function(schema, function_name, t))
             ELSE panic(cat, "No trigger or function found")

\* lines 774-813: GRANT ... ON FUNCTION
function_grant(cat, items, text) ==
    IF Len(items) # 2 THEN panic(cat, "Expected 2 items in function grant list")
    ELSE LET schema == items[1]
             function_name == Last(items)
         IN  IF find_trigger_function(cat, schema, function_name)
             THEN pushed(cat, TriggerFunction(schema, function_name, text))
             ELSE IF find_function(cat, schema, function_name)
             THEN pushed(cat, Function(schema, function_name, text))
             ELSE IF find_aggregate(cat, schema, function_name)
             THEN pushed(cat, Aggregate(schema, function_name, text))
             ELSE panic(cat, "No trigger or function or aggregate found")

\* lines 546-577: ALTER FUNCTION ... OWNER TO
function_owner(cat, items, text) ==
    IF Len(items) # 2 THEN panic(cat, "Expected 2 items in function owner list")
    ELSE LET schema == items[1]
             function_name == Last(items)
         IN  IF find_trigger_function(cat, schema, function_name)
             THEN pushed(cat, TriggerFunction(schema, function_name, text))
             ELSE pushed(cat, Function(schema, function_name, text))

\* lines 484-507: ALTER AGGREGATE ... OWNER TO
aggregate_owner_defaulting(cat, items, text) ==
    pushed(cat, Aggregate(get_schema_or_default(items), Last(items), text))

aggregate_owner(cat, items, text) ==
    IF Len(items) # 2 THEN panic(cat, "Expected 2 items in aggregate owner list")
    ELSE pushed(cat, Aggregate(items[1], Last(items), text))

\* lines 515-538: ALTER OPERATOR ... OWNER TO
operator_owner(cat, items, text) ==
    IF Len(items) # 2 THEN panic(cat, "Expected 2 items in operator owner list")
    ELSE pushed(cat, Operator(items[1], Last(items), text))

\* lines 580-632: ALTER TYPE ... OWNER TO
type_owner(cat, items, text) ==
    IF Len(items) # 2 THEN panic(cat, "Expected 2 items in type owner list")
    ELSE LET schema == items[1]
             type_name == items[2]
         IN  IF find_enum(cat, schema, type_name)
             THEN pushed(cat, Enum(schema, type_name, text))
             ELSE IF find_composite_type(cat, schema, type_name)
             THEN pushed(cat, CompositeType(schema, type_name, text))
             ELSE panic(cat, "No enum or composite type found")

\* lines 756-765: GRANT ... ON SEQUENCE
sequence_grant_checked(cat, obj, text) ==
    IF find_node_by_name(cat, obj.schemaname, obj.relname, "Sequence")
    THEN pushed(cat, Sequence(<<>>, obj.schemaname, obj.relname, text))
    ELSE panic(cat, "No table or view found")

sequence_grant(cat, obj, text) ==
    pushed(cat, Sequence(<<>>, obj.schemaname, obj.relname, text))

\* lines 375-447: one ADD CONSTRAINT command alone in its statement
add_constraint(text, cat, schema, table_name, c) ==
    CASE c.contype = "ConstrForeign" ->
            pushed(cat, ForeignKey(c.conname, schema, table_name,
                                   c.pktable.schemaname, c.pktable.relname, text))
      [] c.contype \in {"ConstrPrimary", "ConstrUnique", "ConstrCheck", "ConstrExclusion"} ->
            pushed(cat, Table(schema, table_name, text))
      [] OTHER -> panic(cat, "Unsupported constraint type")

\* lines 377-388: the pieces of the text after each "ADD CONSTRAINT" and the
\* text from "ALTER TABLE" to the first of them
split_commands(text) == Split(SubSeq(text, IndexOf(text, "ADD CONSTRAINT"), Len(text)),
                              "ADD CONSTRAINT")

split_begin(text) ==
    SubSeq(text, IndexOf(text, "ALTER TABLE"), IndexOf(text, "ADD CONSTRAINT") - 1)

\* lines 391-399: the statement rebuilt from one piece
full_sql(begin, cmd) ==
    begin \o <<"ADD CONSTRAINT">> \o trim_end_matches_comma(trim_end(cmd))

RECURSIVE parse_at(_, _, _)
RECURSIVE parse_commands(_, _, _, _, _)

\* lines 390-401: commands.iter().for_each(..); a panic ends the loop
parse_commands(commands, k, begin, cat, depth) ==
    IF k > Len(commands) THEN [nodes |-> cat, err |-> ""]
    ELSE IF commands[k] = <<>> THEN parse_commands(commands, k + 1, begin, cat, depth)
    ELSE LET r == parse_at(full_sql(begin, commands[k]), cat, depth)
         IN  IF r.err # "" THEN r
             ELSE parse_commands(commands, k + 1, begin, r.nodes, depth)

\* parse as the depth-th call of parse on the stack: the catalog after the
\* statement, and the message if the call panics or the stack is exhausted
parse_at(text, cat, depth) ==
    LET node == parse_sql(text)
    IN  IF depth > MaxStack THEN panic(cat, "stack overflow") ELSE
        CASE node.type = "ParseError" -> panic(cat, "Failed to parse SQL")
          [] node.type = "CreateSchemaStmt" -> pushed(cat, Schema(node.schemaname, text))
          [] node.type = "CommentStmt" ->
                CASE node.objtype = "ObjectColumn" ->
                        LET schema == node.object[1]
                            table_name == node.object[2]
                            column_name == node.object[3]
                            t == comment_on_column(schema, table_name, column_name,
                                                   node.comment)
                        IN  IF find_table(cat, schema, table_name)
                            THEN pushed(cat, Table(schema, table_name, t))
                            ELSE IF find_view(cat, schema, table_name)
                            THEN pushed(cat, View(schema, table_name, t))
                            ELSE panic(cat, "No table or view found")
                  [] node.objtype = "ObjectTable" ->
                        LET schema == node.object[1]
                            table_name == node.object[2]
                        IN  IF find_table(cat, schema, table_name)
                            THEN pushed(cat, Table(schema, table_name,
                                    comment_on_table("TABLE", schema, table_name,
                                                     node.comment)))
                            ELSE IF find_view(cat, schema, table_name)
                            THEN pushed(cat, View(schema, table_name,
                                    comment_on_table("VIEW", schema, table_name,
                                                     node.comment)))
                            ELSE panic(cat, "No table or view found")
                  [] node.objtype = "ObjectFunction" ->
                        function_comment(cat, node.object, node.comment)
                  [] node.objtype = "ObjectSchema" ->
                        pushed(cat, Schema(node.object[1],
                                           comment_on_schema(node.object[1], node.comment)))
                  [] node.objtype = "ObjectType" ->
                        LET schema == node.object[1]
                            type_name == node.object[2]
                            t == comment_on_escaped("TYPE", schema, type_name, node.comment)
                        IN  IF find_enum(cat, schema, type_name)
                            THEN pushed(cat, Enum(schema, type_name, t))
                            ELSE IF find_composite_type(cat, schema, type_name)
                            THEN pushed(cat, CompositeType(schema, type_name, t))
                            ELSE panic(cat, "No type found for comment")
                  [] OTHER -> panic(cat, "Unsupported comment type")
          [] node.type = "DefineStmt" ->
                CASE node.kind = "ObjectAggregate" ->
                        pushed(cat, Aggregate(get_schema_or_default(node.defnames),
                                              Last(node.defnames), text))
                  [] node.kind = "ObjectOperator" ->
                        pushed(cat, Operator(get_schema_or_default(node.defnames),
                                             Last(node.defnames), text))
                  [] OTHER -> panic(cat, "Unsupported define statement kind")
          [] node.type = "ViewStmt" ->
                pushed(cat, View(node.view.schemaname, node.view.relname, text))
          [] node.type = "CreateStmt" ->
                pushed(cat, Table(node.relation.schemaname, node.relation.relname, text))
          [] node.type = "CreateTrigStmt" ->
                pushed(cat, Trigger(node.relation.schemaname, node.trigname,
                                    node.relation.relname, Last(node.funcname), text))
          [] node.type = "CreateFunctionStmt" ->
                LET schema == get_schema_or_default(node.funcname)
                    function_name == Last(node.funcname)
                IN  IF node.return_type = "trigger"
                    THEN pushed(cat, TriggerFunction(schema, function_name, text))
                    ELSE pushed(cat, Function(schema, function_name, text))
          [] node.type = "AlterTableStmt" ->
                LET schema == node.relation.schemaname
                    table_name == node.relation.relname
                    number_of_commands == Len(node.cmds)
                    c == node.cmds[1]
                IN  CASE c.subtype = "AtColumnDefault" ->
                            pushed(cat, Table(schema, table_name, text))
                      [] c.subtype = "AtEnableRowSecurity" ->
                            pushed(cat, EnablePolicy(schema, table_name, text))
                      [] c.subtype = "AtAddConstraint" ->
                            IF number_of_commands > 1
                            THEN parse_commands(split_commands(text), 1,
                                                split_begin(text), cat, depth + 1)
                            ELSE add_constraint(text, cat, schema, table_name, c)
                      [] c.subtype = "AtChangeOwner" -> [nodes |-> cat, err |-> ""]
                      [] OTHER -> panic(cat, "Unsupported AlterTableType")
          [] node.type = "VariableSetStmt" ->
                IF node.kind # "VarResetAll"
                THEN pushed(cat, Setup(text))
                ELSE [nodes |-> cat, err |-> ""]
          [] node.type = "SelectStmt" -> pushed(cat, Setup(text))
          [] node.type = "AlterOwnerStmt" ->
                CASE node.object_type = "ObjectSchema" ->
                        pushed(cat, Schema(node.objname[1], text))
                  [] node.object_type = "ObjectAggregate" ->
                        aggregate_owner(cat, node.objname, text)
                  [] node.object_type = "ObjectOperator" ->
                        operator_owner(cat, node.objname, text)
                  [] node.object_type = "ObjectFunction" ->
                        function_owner(cat, node.objname, text)
                  [] node.object_type = "ObjectType" ->
                        type_owner(cat, node.objname, text)
                  [] OTHER -> panic(cat, "Unsupported object type in AlterOwnerStmt")
          [] node.type = "CreateSeqStmt" ->
                pushed(cat, Sequence(<<>>, node.sequence.schemaname,
                                     node.sequence.relname, text))
          [] node.type = "AlterSeqStmt" ->
                LET schema_name == node.sequence.schemaname
                    rel_name == node.sequence.relname
                    items == node.owned_by
                IN  IF Len(items) # 3
                    THEN panic(cat, "Expected 3 items in sequence owned_by list")
                    ELSE IF items[1] # schema_name
                    THEN panic(cat, "Schema name mismatch in sequence owned_by")
                    ELSE pushed(cat, Sequence(<<items[2]>>, schema_name, rel_name, text))
          [] node.type = "GrantStmt" ->
                CASE node.objtype = "ObjectSchema" ->
                        pushed(cat, Schema(node.object, text))
                  [] node.objtype = "ObjectTable" ->
                        LET schema == node.object.schemaname
                            name == node.object.relname
                        IN  IF find_table(cat, schema, name)
                            THEN pushed(cat, Table(schema, name, text))
                            ELSE IF find_view(cat, schema, name)
                            THEN pushed(cat, View(schema, name, text))
                            ELSE panic(cat, "No table or view found")
                  [] node.objtype = "ObjectSequence" ->
                        sequence_grant(cat, node.object, text)
                  [] node.objtype = "ObjectFunction" ->
                        function_grant(cat, node.objname, text)
                  [] OTHER -> panic(cat, "Unsupported object type in GrantStmt")
          [] OTHER -> panic(cat, "Unsupported node")

\* parse called by get_nodes
parse(text, cat) == parse_at(text, cat, 1)

(***************************************************************************)
(* The driver (main.rs)                                                    *)
(***************************************************************************)
EmptyTree == [p \in {} |-> <<>>]

DirsOf(files) == UNION {Ancestors(p) : p \in DOMAIN files}

get_nodes_step_clearing ==
    /\ pc = "classify"
    /\ pos < Len(dump)
    /\ LET r == parse(dump[pos + 1], nodes)
       IN  /\ nodes' = r.nodes
           /\ IF r.err = ""
              THEN pos' = pos + 1 /\ UNCHANGED <<pc, err>>
              ELSE pc' = "panic" /\ err' = r.err /\ UNCHANGED pos
    /\ fs' = EmptyTree
    /\ dirs' = {}
    /\ UNCHANGED <<dump, idx, ret, wrote, run, fs0>>

get_nodes_step_backwards ==
    /\ pc = "classify"
    /\ pos < Len(dump)
    /\ LET r == parse(dump[Len(dump) - pos], nodes)
       IN  /\ nodes' = r.nodes
           /\ IF r.err = ""
              THEN pos' = pos + 1 /\ UNCHANGED <<pc, err>>
              ELSE pc' = "panic" /\ err' = r.err /\ UNCHANGED pos
    /\ UNCHANGED <<dump, fs, dirs, idx, ret, wrote, run, fs0>>

\* parse.rs:14-16, one turn of the for_each of get_nodes: parse pushes the
\* statement's entities onto the catalog or panics
get_nodes_step ==
    /\ pc = "classify"
    /\ pos < Len(dump)
    /\ LET r == parse(dump[pos + 1], nodes)
       IN  /\ nodes' = r.nodes
           /\ IF r.err = ""
              THEN pos' = pos + 1 /\ UNCHANGED <<pc, err>>
              ELSE pc' = "panic" /\ err' = r.err /\ UNCHANGED pos
    /\ UNCHANGED <<dump, fs, dirs, idx, ret, wrote, run, fs0>>

remove_dir_all_skipped ==
    /\ pc = "classify"
    /\ pos = Len(dump)
    /\ pc' = "write"
    /\ UNCHANGED <<dump, pos, nodes, err, fs, dirs, idx, ret, wrote, run, fs0>>

\* main.rs:99-106: get_nodes has returned the catalog; the schemas directory
\* is removed (the file system carries out the removal; its result is not
\* looked at) and write_nodes is called
remove_dir_all ==
    /\ pc = "classify"
    /\ pos = Len(dump)
    /\ fs' = EmptyTree
    /\ dirs' = {}
    /\ pc' = "write"
    /\ UNCHANGED <<dump, pos, nodes, err, idx, ret, wrote, run, fs0>>

\* get_nodes on the first k statements: the catalog, and the panic message
RECURSIVE get_nodes(_, _)
get_nodes(stmts, k) ==
    IF k = 0 THEN [nodes |-> <<>>, err |-> ""]
    ELSE LET r == get_nodes(stmts, k - 1)
         IN  IF r.err # "" THEN r ELSE parse(stmts[k], r.nodes)

(***************************************************************************)
(* Statements, entities and file trees the runs are drawn from             *)
(***************************************************************************)
SeqsUpTo(S, n) == UNION {[1..k -> S] : k \in 0..n}

S_schema == <<"CREATE SCHEMA", "app">>
S_table == <<"CREATE TABLE", "app", "users", "(id int)">>
S_comment == <<"COMMENT ON TABLE", "app", "users", "IS", "'", "users table", "'">>
S_drop == <<"DROP TABLE", "app", "users">>
S_seq == <<"CREATE SEQUENCE", "app", "seq">>
S_owned == <<"ALTER SEQUENCE", "app", "seq", "OWNED BY", "app", "users", "id">>
S_owned_orders == <<"ALTER SEQUENCE", "app", "seq", "OWNED BY", "app", "orders", "id">>
S_owned_api == <<"ALTER SEQUENCE", "app", "seq", "OWNED BY", "api", "users", "id">>
S_owner == <<"ALTER TABLE", "app", "users", "OWNER TO", "postgres">>
S_dropcol == <<"ALTER TABLE", "app", "users", "DROP COLUMN", "id">>
S_select == <<"SELECT", "1">>
S_union == <<"SELECT", "2", "UNION", "SELECT", "1">>
S_function == <<"CREATE FUNCTION", "app", "f", "RETURNS", "trigger", "$$..$$">>

\* ALTER TABLE app.users
\*     ADD CONSTRAINT users_pkey PRIMARY KEY,
\*     ADD CONSTRAINT users_fk FOREIGN KEY REFERENCES api.orders
S_multi ==
    <<"ALTER TABLE", "app", "users", NL,
      "ADD CONSTRAINT", "users_pkey", "PRIMARY KEY", ",", NL,
      "ADD CONSTRAINT", "users_fk", "FOREIGN KEY", "api", "orders">>

\* ALTER TABLE app.users
\*     ADD CONSTRAINT users_note CHECK (note <> 'ADD CONSTRAINT'),
\*     ADD CONSTRAINT users_key UNIQUE
S_multi_literal ==
    <<"ALTER TABLE", "app", "users", NL,
      "ADD CONSTRAINT", "users_note", "CHECK", "(note <>", "'", "ADD CONSTRAINT", "'", ")",
      ",", NL,
      "ADD CONSTRAINT", "users_key", "UNIQUE">>

S_orders == <<"CREATE TABLE", "api", "orders", "(id int)">>
S_grant == <<"GRANT ON TABLE", "app", "users", "TO", "anon">>
S_default == <<"ALTER TABLE", "app", "users", "ALTER COLUMN", "id", "SET DEFAULT", "1">>

Library ==
    {S_schema, S_table, S_orders, S_comment, S_grant, S_default, S_drop, S_seq,
     S_owned, S_owned_orders, S_owned_api, S_owner, S_dropcol, S_multi,
     S_multi_literal}

\* functions, aggregates and the statements that refer to one by name
S_function_plain == <<"CREATE FUNCTION", "app", "f", "RETURNS", "int", "$$..$$">>
S_function_api == <<"CREATE FUNCTION", "api", "f", "RETURNS", "int", "$$..$$">>
S_aggregate == <<"CREATE AGGREGATE", "app", "f", "(sfunc = g)">>
S_fcomment == <<"COMMENT ON FUNCTION", "app", "f", "IS", "'", "does f", "'">>
S_fgrant == <<"GRANT ON FUNCTION", "app", "f", "TO", "anon">>
S_fowner == <<"ALTER FUNCTION", "app", "f", "OWNER TO", "postgres">>

FunctionLibrary ==
    {S_function, S_function_plain, S_function_api, S_aggregate,
     S_fcomment, S_fgrant, S_fowner}

\* aggregates and operators, with and without a schema in the name
S_aggregate_bare == <<"CREATE AGGREGATE", "f", "(sfunc = g)">>
S_operator == <<"CREATE OPERATOR", "app", "===", "(function = g)">>
S_operator_bare == <<"CREATE OPERATOR", "===", "(function = g)">>
S_aggregate_owner == <<"ALTER AGGREGATE", "app", "f", "OWNER TO", "postgres">>
S_aggregate_owner_bare == <<"ALTER AGGREGATE", "f", "OWNER TO", "postgres">>
S_operator_owner == <<"ALTER OPERATOR", "app", "===", "OWNER TO", "postgres">>
S_operator_owner_bare == <<"ALTER OPERATOR", "===", "OWNER TO", "postgres">>

AggregateLibrary ==
    {S_aggregate, S_aggregate_bare, S_operator, S_operator_bare,
     S_aggregate_owner, S_aggregate_owner_bare, S_operator_owner, S_operator_owner_bare}

\* a table and a view of the same name, and the statements that refer to it
S_view == <<"CREATE VIEW", "app", "users", "AS", "SELECT 1">>
S_view_comment == <<"COMMENT ON VIEW", "app", "users", "IS", "'", "users table", "'">>
S_other_table == <<"CREATE TABLE", "api", "users", "(id int)">>

RelationLibrary ==
    {S_table, S_other_table, S_view, S_comment, S_view_comment, S_grant, S_owner}

\* a sequence and the statements that refer to it
S_seq_grant == <<"GRANT ON SEQUENCE", "app", "seq", "TO", "anon">>

SequenceLibrary == {S_table, S_seq, S_owned, S_owned_orders, S_owned_api, S_seq_grant}

\* ALTER TABLE app.users
\*     ADD CONSTRAINT users_key UNIQUE,
\*     ALTER COLUMN id SET DEFAULT 1
S_mixed ==
    <<"ALTER TABLE", "app", "users", NL,
      "ADD CONSTRAINT", "users_key", "UNIQUE", ",", NL,
      "ALTER COLUMN", "id", "SET DEFAULT", "1">>

\* ALTER TABLE statements of one and of several commands
SplitLibrary == {S_table, S_orders, S_default, S_multi, S_multi_literal, S_mixed}

\* a trigger function, its comment, and triggers that execute it
S_trigger(schema, name, table) ==
    <<"CREATE TRIGGER", name, "ON", schema, table, "EXECUTE FUNCTION", "app", "f">>

TriggerLibrary ==
    {S_function, S_fcomment, S_trigger("app", "trg", "users"),
     S_trigger("app", "trg2", "users"), S_trigger("app", "trg2", "orders"),
     S_trigger("api", "trg", "users")}

\* statements that are equal to, or a fragment of, another one of the same file
DedupLibrary == {S_select, S_union, S_schema, S_table, S_comment}

UsersFile == <<"app", "tables", "users.sql">>

StaleTree == (UsersFile :> <<"-- old", NL>>)

DriverTrees == {EmptyTree, StaleTree}

\* entities as parse makes them
E_schema == Schema("app", S_schema)
E_table == Table("app", "users", S_table)
E_comment == Table("app", "users", comment_on_table("TABLE", "app", "users", "users table"))
E_select == Setup(S_select)
E_union == Setup(S_union)
E_seq == Sequence(<<>>, "app", "seq", S_seq)
E_owned == Sequence(<<"users">>, "app", "seq", S_owned)
E_owned_orders == Sequence(<<"orders">>, "app", "seq", S_owned_orders)
E_function == TriggerFunction("app", "f", S_function)
E_trigger(schema, name, table) ==
    Trigger(schema, name, table, "f",
            <<"CREATE TRIGGER", name, "ON", schema, table, "EXECUTE FUNCTION", "app", "f">>)

WriterEntities == {E_schema, E_table, E_comment, E_select, E_union, E_seq, E_owned}

\* a file that is not text, one that holds a statement already, one that
\* holds other text
WriterTrees ==
    {EmptyTree,
     (UsersFile :> (<<BAD>> \o sql(E_table) \o <<NL>>)),
     (<<"index.sql">> :> (sql(E_select) \o <<NL>>)),
     StaleTree}

PlacementEntities ==
    {E_function, E_trigger("app", "trg", "users"), E_trigger("app", "trg2", "orders"),
     E_trigger("app", "trg2", "users"), E_trigger("api", "trg", "users"),
     E_table, E_seq, E_owned, E_owned_orders}

(***************************************************************************)
(* Specifications                                                          *)
(***************************************************************************)
\* main: classify the dump, remove the output directory, write the catalog
Init ==
    /\ dump \in SeqsUpTo(Library, MaxDump)
    /\ fs \in DriverTrees
    /\ fs0 = fs
    /\ dirs = DirsOf(fs)
    /\ pos = 0 /\ nodes = <<>> /\ pc = "classify" /\ err = ""
    /\ idx = 0 /\ ret = <<>> /\ wrote = <<>> /\ run = 1

Next == get_nodes_step \/ remove_dir_all \/ write_nodes_step \/ write_nodes_return

Spec == Init /\ [][Next]_vars

\* main on the dumps made of the statements of one library
InitDriver(library) ==
    /\ dump \in SeqsUpTo(library, MaxDump)
    /\ fs = EmptyTree
    /\ fs0 = fs
    /\ dirs = DirsOf(fs)
    /\ pos = 0 /\ nodes = <<>> /\ pc = "classify" /\ err = ""
    /\ idx = 0 /\ ret = <<>> /\ wrote = <<>> /\ run = 1

InitF == InitDriver(FunctionLibrary)

SpecF == InitF /\ [][Next]_vars

InitA == InitDriver(AggregateLibrary)

SpecA == InitA /\ [][Next]_vars

InitR == InitDriver(RelationLibrary)

SpecR == InitR /\ [][Next]_vars

InitS == InitDriver(SequenceLibrary)

SpecS == InitS /\ [][Next]_vars

InitT == InitDriver(SplitLibrary)

SpecT == InitT /\ [][Next]_vars

InitG == InitDriver(TriggerLibrary)

SpecG == InitG /\ [][Next]_vars

InitD == InitDriver(DedupLibrary)

SpecD == InitD /\ [][Next]_vars

\* write_nodes called on a catalog and an output directory, MaxRuns times
InitWriter(entities, trees) ==
    /\ nodes \in SeqsUpTo(entities, MaxNodes)
    /\ fs \in trees
    /\ fs0 = fs
    /\ dirs = DirsOf(fs)
    /\ dump = <<>> /\ pos = 0 /\ pc = "write" /\ err = ""
    /\ idx = 0 /\ ret = <<>> /\ wrote = <<>> /\ run = 1

NextW == write_nodes_step \/ write_nodes_return \/ write_nodes_again

InitW == InitWriter(WriterEntities, WriterTrees)

SpecW == InitW /\ [][NextW]_vars

InitP == InitWriter(PlacementEntities, {EmptyTree})

SpecP == InitP /\ [][NextW]_vars

(***************************************************************************)
(* Properties                                                              *)
(***************************************************************************)
\* the text the writer is to append for an entity: its statement with a
\* terminating semicolon
Rendered(n) == IF n.sql # <<>> /\ Last(n.sql) = ";" THEN n.sql ELSE n.sql \o <<";">>

\* the tree after appending text and a line break to the file at p
Appended(files, p, text) ==
    [q \in DOMAIN files \cup {p} |->
        IF q # p THEN files[q]
        ELSE IF p \in DOMAIN files THEN files[p] \o text \o <<NL>>
        ELSE text \o <<NL>>]

\* a step of the writer that handled the entity nodes[idx + 1]
WriterStepDone == pc = "write" /\ idx' = idx + 1

\* every file the catalog's entities resolve to and that was there before
\* the first call can be read as UTF-8 text
TargetsAreText ==
    \A i \in 1..Len(nodes) :
        LET r == path(nodes[i], nodes)
        IN  (~r.panic /\ r.path \in DOMAIN fs0) => ValidUtf8(fs0[r.path])

----------------------------------------------------------------------------
\* C1 as stated: after write_nodes has run once on a catalog and a tree, a
\* second run appends nothing and creates no file, whatever the initial tree.
C1_SecondRunTouchesNothing ==
    [][(pc = "write" /\ run >= 2) => fs' = fs]_vars

\* C1 amended: the same, for an initial tree in which every file at a path
\* the catalog resolves to is readable as UTF-8 text.
C1_SecondRunTouchesNothingOnText ==
    [][(pc = "write" /\ run >= 2 /\ TargetsAreText) => fs' = fs]_vars

\* C1 witness: a second run over two or more entities has finished, the first
\* run having changed the tree.
C1_Witness ==
    /\ run = 2 /\ pc = "done" /\ Len(nodes) >= 2
    /\ TargetsAreText /\ fs # fs0
    /\ \A i \in 1..Len(wrote) : ~wrote[i]

----------------------------------------------------------------------------
\* C9 as stated: a writer step leaves the tree unchanged if the target file
\* exists and its content contains the rendered text, and otherwise makes the
\* file its previous content followed by the rendered text and a line break.
C9_StepOnContent ==
    [][WriterStepDone =>
        LET n == nodes[idx + 1]
            p == ret'[idx + 1]
        IN  IF p \in DOMAIN fs /\ Contains(fs[p], Rendered(n))
            THEN fs' = fs
            ELSE fs' = Appended(fs, p, Rendered(n))]_vars

\* C9 amended: the file is left unchanged if it exists, can be read as UTF-8
\* text and contains the rendered text; otherwise (absent, unreadable, or
\* not containing it) the rendered text and a line break are appended.
C9_StepOnReadableContent ==
    [][WriterStepDone =>
        LET n == nodes[idx + 1]
            p == ret'[idx + 1]
        IN  IF p \in DOMAIN fs /\ ValidUtf8(fs[p]) /\ Contains(fs[p], Rendered(n))
            THEN fs' = fs
            ELSE fs' = Appended(fs, p, Rendered(n))]_vars

\* C9 witness: in one run the writer has appended to a file that was there
\* before and has skipped an entity whose text its file already held.
C9_Witness ==
    /\ \E i \in 1..Len(wrote) : wrote[i] /\ ret[i] \in DOMAIN fs0
    /\ \E i \in 1..Len(wrote) : ~wrote[i]

----------------------------------------------------------------------------
\* C10: over every step of write_nodes, each file's content before the step
\* is a prefix of its content after the step, and no file is removed.
C10_AppendOnly ==
    [][pc = "write" =>
        \A p \in DOMAIN fs : p \in DOMAIN fs' /\ IsPrefix(fs[p], fs'[p])]_vars

\* C10 witness: a file that was there before the run has grown.
C10_Witness ==
    \E p \in DOMAIN fs0 :
        p \in DOMAIN fs /\ Len(fs[p]) > Len(fs0[p]) /\ IsPrefix(fs0[p], fs[p])

----------------------------------------------------------------------------
\* the panic messages of the three failure kinds of the classifier
UnsupportedStatementKind ==
    {"Unsupported node", "Unsupported comment type", "Unsupported AlterTableType",
     "Unsupported constraint type", "Unsupported object type in GrantStmt",
     "Unsupported define statement kind", "Unsupported object type in AlterOwnerStmt"}
UnresolvedReference ==
    {"No table or view found", "No trigger or function found",
     "No trigger or function or aggregate found", "No type found for comment",
     "No enum or composite type found"}
MalformedStatement ==
    {"Schema name mismatch in sequence owned_by",
     "Expected 3 items in sequence owned_by list",
     "Expected 2 items in function comment list",
     "Expected 2 items in function grant list",
     "Expected 2 items in function owner list",
     "Expected 2 items in aggregate owner list",
     "Expected 2 items in operator owner list",
     "Expected 2 items in type owner list"}
ClassificationFailure ==
    UnsupportedStatementKind \cup UnresolvedReference \cup MalformedStatement

\* the statements of the library whose kind or sub-kind has no dispatch rule
UnsupportedStatements == {S_drop, S_dropcol}

\* the entities classified from the statements before the failing one
Prior == get_nodes(dump, pos).nodes

\* C2 as stated: after an abort on a statement of unsupported kind, the files
\* on disk are exactly the files of the entities classified before it (here
\* for a run started on an empty output directory).
C2_FilesOfPriorStatements ==
    (pc = "panic" /\ err \in UnsupportedStatementKind /\ fs0 = EmptyTree) =>
        DOMAIN fs = {path(Prior[i], Prior).path :
                        i \in {j \in 1..Len(Prior) : ~path(Prior[j], Prior).panic}}

\* C2 amended: a statement of unsupported kind aborts the run with an
\* UnsupportedStatementKind failure, no entity is appended for it, and no
\* file is created, appended to or removed: the tree after the abort is the
\* tree as it was before the run, without the files of earlier statements.
C2_AbortLeavesTreeAsFound ==
    [][(pc = "classify" /\ pos < Len(dump) /\ dump[pos + 1] \in UnsupportedStatements) =>
        /\ pc' = "panic" /\ err' \in UnsupportedStatementKind
        /\ nodes' = nodes
        /\ fs' = fs0 /\ dirs' = DirsOf(fs0)]_vars

\* C2 witness: the run has aborted on an unsupported statement that follows
\* classified statements, in a directory that held a file.
C2_Witness ==
    /\ pc = "panic" /\ err \in UnsupportedStatementKind
    /\ pos >= 1 /\ Len(nodes) >= 1
    /\ fs0 # EmptyTree /\ fs = fs0

----------------------------------------------------------------------------
\* C3 as stated: after an abort on a failing statement, every entity
\* classified from an earlier statement has its output on disk at its path.
C3_PriorOutputOnDisk ==
    (pc = "panic" /\ err \in ClassificationFailure) =>
        \A i \in 1..Len(Prior) :
            LET r == path(Prior[i], Prior)
            IN  ~r.panic =>
                    r.path \in DOMAIN fs /\ Contains(fs[r.path], Rendered(Prior[i]))

\* C3 amended: nothing is rolled back, and an abort on a failing statement
\* comes before any output: the tree is as it was before the run.  Output is
\* left behind only by an abort of the writer (no table found for a
\* sequence), and then every entity before the failing one has its rendered
\* text in the file at its resolved path.
C3_NoRollback ==
    pc = "panic" =>
        IF err \in ClassificationFailure \cup {"Failed to parse SQL"}
        THEN fs = fs0 /\ dirs = DirsOf(fs0) /\ idx = 0
        ELSE /\ err = "No table found for sequence"
             /\ \A i \in 1..idx :
                    ret[i] \in DOMAIN fs /\ Contains(fs[ret[i]], Rendered(nodes[i]))

\* C3 witness: an abort on an unresolved reference after classified statements.
C3_Witness ==
    /\ pc = "panic" /\ err \in UnresolvedReference
    /\ pos >= 1 /\ Len(nodes) >= 1 /\ fs = fs0

----------------------------------------------------------------------------
Dump4 == <<S_schema, S_table, S_comment>>

\* the first three parts of C4: the run ends, with three entries of kinds
\* Schema, Table, Table and with two files, the schema's holding its statement
EndToEndButUsers ==
    /\ Len(nodes) = 3
    /\ nodes[1].kind = "Schema" /\ nodes[2].kind = "Table" /\ nodes[3].kind = "Table"
    /\ DOMAIN fs = {<<"app", "index.sql">>, UsersFile}
    /\ fs[<<"app", "index.sql">>] = S_schema \o <<";", NL>>

\* C4 as stated: app/tables/users.sql holds the CREATE TABLE text followed by
\* the COMMENT text of the dump.
C4_EndToEndVerbatim ==
    (dump = Dump4 /\ pc = "done") =>
        /\ EndToEndButUsers
        /\ fs[UsersFile] = S_table \o <<";", NL>> \o S_comment \o <<";", NL>>

\* C4 amended: the three statements yield three entries (Schema, Table,
\* Table) and two files; app/tables/users.sql holds the CREATE TABLE text
\* followed by the comment as the classifier writes it anew, with the schema
\* and the table name in double quotes.
C4_EndToEnd ==
    (dump = Dump4) =>
        /\ pc # "panic"
        /\ pc = "done" =>
            /\ EndToEndButUsers
            /\ fs[UsersFile] =
                    S_table \o <<";", NL>>
                    \o <<"COMMENT ON TABLE", "\"app\"", "\"users\"", "IS",
                         "'", "users table", "'", ";", NL>>

\* C4 witness: the run on the three statements has finished.
C4_Witness == dump = Dump4 /\ pc = "done" /\ Len(ret) = 3

----------------------------------------------------------------------------
----------------------------------------------------------------------------
\* C6: a Sequence (s, q) was resolved to s/tables/T.sql, T being its own
\* table if it has one and otherwise the table of a Sequence entity for
\* (s, q) somewhere in the catalog; CREATE SEQUENCE followed by ALTER SEQUENCE
\* OWNED BY resolves both entities to the owning table's file.
C6_SequencePlacement ==
    /\ \A i \in 1..Len(ret) :
          nodes[i].kind = "Sequence" =>
              LET s == nodes[i].schema
                  owners == {j \in 1..Len(nodes) :
                                /\ nodes[j].kind = "Sequence"
                                /\ nodes[j].schema = s /\ nodes[j].name = nodes[i].name
                                /\ nodes[j].table # <<>>}
              IN  IF nodes[i].table # <<>>
                  THEN ret[i] = <<s, "tables", nodes[i].table[1] \o ".sql">>
                  ELSE \E j \in owners :
                          ret[i] = <<s, "tables", nodes[j].table[1] \o ".sql">>
    /\ dump = <<S_seq, S_owned>> =>
          /\ pc # "panic"
          /\ pc = "done" => ret = <<UsersFile, UsersFile>>

\* C6 witness: CREATE SEQUENCE app.seq, then ALTER SEQUENCE app.seq OWNED BY
\* app.users.id, both written to app/tables/users.sql.
C6_Witness ==
    /\ dump = <<S_seq, S_owned>> /\ pc = "done"
    /\ nodes[1].table = <<>> /\ ret[1] = UsersFile /\ wrote = <<TRUE, TRUE>>

----------------------------------------------------------------------------
\* the ADD CONSTRAINT clauses of the library's statements that have several,
\* and the text before the first
Clauses(stmt) ==
    IF stmt = S_multi
    THEN << <<"ADD CONSTRAINT", "users_pkey", "PRIMARY KEY">>,
            <<"ADD CONSTRAINT", "users_fk", "FOREIGN KEY", "api", "orders">> >>
    ELSE << <<"ADD CONSTRAINT", "users_note", "CHECK",
              "(note <>", "'", "ADD CONSTRAINT", "'", ")">>,
            <<"ADD CONSTRAINT", "users_key", "UNIQUE">> >>

ClausePrefix == <<"ALTER TABLE", "app", "users", NL>>

\* the classification of a statement with the clauses cs appended one entity
\* for each, in order, each with the prefix and its clause as statement
SplitInto(cs) ==
    /\ pc' = "classify"
    /\ Len(nodes') = Len(nodes) + Len(cs)
    /\ SubSeq(nodes', 1, Len(nodes)) = nodes
    /\ \A k \in 1..Len(cs) :
          LET e == nodes'[Len(nodes) + k]
          IN  /\ e.sql = ClausePrefix \o cs[k]
              /\ e.kind = IF cs[k][3] = "FOREIGN KEY" THEN "ForeignKey" ELSE "Table"

\* C7: an ALTER TABLE with N >= 2 ADD CONSTRAINT clauses is classified into
\* N entities in clause order, each a single-constraint statement, a
\* ForeignKey for a foreign key and a Table entity otherwise.
C7_SplitPerClause ==
    [][(pc = "classify" /\ pos < Len(dump) /\ dump[pos + 1] \in {S_multi, S_multi_literal}) =>
        SplitInto(Clauses(dump[pos + 1]))]_vars

----------------------------------------------------------------------------
\* C8: every Table entity (s, n) was resolved to s/tables/n.sql, whatever
\* else the catalog holds and whichever statement it was classified from.
C8_TablePlacement ==
    \A i \in 1..Len(ret) :
        nodes[i].kind = "Table" =>
            ret[i] = <<nodes[i].schema, "tables", nodes[i].name \o ".sql">>

\* C8 witness: Table entities made from a grant and from a constraint have
\* been written to the table's file.
C8_Witness ==
    /\ pc = "done"
    /\ \E i \in 1..Len(ret) :
          nodes[i].kind = "Table" /\ nodes[i].sql[1] = "GRANT ON TABLE" /\ ret[i] = UsersFile
    /\ \E i \in 1..Len(ret) :
          nodes[i].kind = "Table" /\ nodes[i].sql[1] = "ALTER TABLE" /\ ret[i] = UsersFile

----------------------------------------------------------------------------
\* the paths in the returned list, and the paths of the files the call has
\* created or appended to
Returned == {ret[i] : i \in 1..Len(ret)}
Touched == {ret[i] : i \in {j \in 1..Len(ret) : wrote[j]}}

\* C11 as stated: a path is in the list write_nodes returns if and only if
\* the call created or appended to the file at that path.
C11_ReturnsTouchedPaths ==
    pc = "done" => Returned = Touched

\* C11 amended: the returned list holds, in catalog order, the resolved path
\* of every entity, one entry for each, whether the entity's text was
\* appended or skipped; every file the call created or appended to is in it.
C11_ReturnsEveryPath ==
    pc = "done" =>
        /\ Len(ret) = Len(nodes)
        /\ \A i \in 1..Len(nodes) : ret[i] = path(nodes[i], nodes).path
        /\ run = 1 =>
              \A p \in DOMAIN fs : (p \notin DOMAIN fs0 \/ fs[p] # fs0[p]) => p \in Returned

\* C11 witness: a call has returned a path whose file it neither created nor
\* appended to, next to one it did append to.
C11_Witness ==
    /\ pc = "done" /\ run = 1
    /\ \E p \in Returned : p \notin Touched /\ fs[p] = fs0[p]
    /\ Touched # {}

----------------------------------------------------------------------------
\* C12: the catalog before any step is a prefix of the catalog after it, so
\* no entry is removed, moved or changed in kind, schema, name, table or text;
\* this covers the steps that append nothing and those that split constraints.
C12_CatalogAppendOnly ==
    [][IsPrefix(nodes, nodes')]_vars

\* C12 witness: a table created, an owner change that appended nothing and a
\* two-constraint statement split into two entities.
C12_Witness ==
    /\ dump = <<S_table, S_owner, S_multi>> /\ pos = 3
    /\ Len(nodes) = 3 /\ nodes[1] = E_table /\ nodes[3].kind = "ForeignKey"

----------------------------------------------------------------------------
\* the entities made from statement k of the dump: what its classification
\* appends to the catalog of the statements before it
EntitiesOf(k) ==
    LET before == get_nodes(dump, k - 1).nodes
        after == parse(dump[k], before).nodes
    IN  SubSeq(after, Len(before) + 1, Len(after))

\* the entities of statements 1..k, statement by statement
RECURSIVE InDumpOrder(_)
InDumpOrder(k) == IF k = 0 THEN <<>> ELSE InDumpOrder(k - 1) \o EntitiesOf(k)

\* statements that refer to the relation app.users by name
RefersToUsers == {S_comment, S_grant}

\* C13: the catalog holds the entities of the classified statements in dump
\* order, and a statement is classified against the entities of the
\* statements before it only: a reference to a relation that no earlier
\* statement produced fails even if a later statement creates the relation.
C13_CatalogInDumpOrder ==
    [][pc = "classify" =>
        /\ nodes = InDumpOrder(pos)
        /\ (pos < Len(dump) /\ dump[pos + 1] \in RefersToUsers) =>
              IF \E i \in 1..Len(InDumpOrder(pos)) :
                    /\ InDumpOrder(pos)[i].kind \in {"Table", "View"}
                    /\ InDumpOrder(pos)[i].schema = "app"
                    /\ InDumpOrder(pos)[i].name = "users"
              THEN pc' = "classify" /\ Len(nodes') = Len(nodes) + 1
              ELSE pc' = "panic" /\ err' \in UnresolvedReference /\ nodes' = nodes]_vars

\* C13 witness: a comment on app.users has failed after one classified
\* statement, although the statement after it creates app.users.
C13_Witness ==
    /\ pc = "panic" /\ err \in UnresolvedReference
    /\ Len(dump) = 3 /\ pos = 1 /\ Len(nodes) = 1
    /\ dump[2] = S_comment /\ dump[3] = S_table

----------------------------------------------------------------------------
\* the catalog holds an entity of this kind for the function name app.f
Matches(kind) ==
    \E i \in 1..Len(nodes) :
        nodes[i].kind = kind /\ nodes[i].schema = "app" /\ nodes[i].name = "f"

\* the next statement to classify is s
Classifying(s) == pc = "classify" /\ pos < Len(dump) /\ dump[pos + 1] = s

\* the step appended exactly one entity, of this kind, for app.f
Emitted(kind) ==
    /\ pc' = "classify"
    /\ Len(nodes') = Len(nodes) + 1
    /\ SubSeq(nodes', 1, Len(nodes)) = nodes
    /\ Last(nodes').kind = kind /\ Last(nodes').schema = "app" /\ Last(nodes').name = "f"

\* the step aborted the run with one of these messages and appended nothing
Failed(messages) == pc' = "panic" /\ err' \in messages /\ nodes' = nodes

Preferred ==
    IF Matches("TriggerFunction") THEN "TriggerFunction"
    ELSE IF Matches("Function") THEN "Function" ELSE "Aggregate"

\* C14 as stated: a function comment, grant or owner change naming app.f,
\* when the catalog holds a TriggerFunction, Function or Aggregate app.f,
\* emits a TriggerFunction if one matches, else a Function if one matches,
\* else an Aggregate.
C14_FunctionTargetPreference ==
    [][((Classifying(S_fcomment) \/ Classifying(S_fgrant) \/ Classifying(S_fowner))
        /\ (Matches("TriggerFunction") \/ Matches("Function") \/ Matches("Aggregate")))
       => Emitted(Preferred)]_vars

\* C14 amended: the order TriggerFunction, Function, Aggregate is that of a
\* function grant.  A function comment emits a TriggerFunction if one
\* matches, else a Function if one matches, and fails if only an Aggregate
\* matches.  A function owner change emits a TriggerFunction if one matches
\* and a Function otherwise, also when only an Aggregate matches.
C14_FunctionTargetByStatement ==
    [][(Matches("TriggerFunction") \/ Matches("Function") \/ Matches("Aggregate")) =>
        /\ Classifying(S_fgrant) => Emitted(Preferred)
        /\ Classifying(S_fcomment) =>
              IF Matches("TriggerFunction") THEN Emitted("TriggerFunction")
              ELSE IF Matches("Function") THEN Emitted("Function")
              ELSE Failed({"No trigger or function found"})
        /\ Classifying(S_fowner) =>
              IF Matches("TriggerFunction") THEN Emitted("TriggerFunction")
              ELSE Emitted("Function")]_vars

\* C14 witness: with a trigger function and a function app.f in the catalog
\* a grant was classified as TriggerFunction.
C14_Witness ==
    /\ dump = <<S_function_plain, S_function, S_fgrant>> /\ pos = 3
    /\ nodes[1].kind = "Function" /\ nodes[2].kind = "TriggerFunction"
    /\ nodes[3] = TriggerFunction("app", "f", S_fgrant)

----------------------------------------------------------------------------
NoFunctionTarget ==
    ~(Matches("TriggerFunction") \/ Matches("Function") \/ Matches("Aggregate"))

\* C15 as stated: a function comment, grant or owner change naming app.f
\* while the catalog holds no TriggerFunction, Function or Aggregate app.f
\* aborts the run and appends no entity.
C15_NoFunctionTargetFails ==
    [][((Classifying(S_fcomment) \/ Classifying(S_fgrant) \/ Classifying(S_fowner))
        /\ NoFunctionTarget)
       => Failed(ClassificationFailure)]_vars

\* C15 amended: without a match a function comment and a function grant
\* abort the run and append nothing; a function owner change does not look
\* for a match to fail on and appends a Function entity.
C15_NoFunctionTargetByStatement ==
    [][NoFunctionTarget =>
        /\ Classifying(S_fcomment) => Failed({"No trigger or function found"})
        /\ Classifying(S_fgrant) => Failed({"No trigger or function or aggregate found"})
        /\ Classifying(S_fowner) => Emitted("Function")]_vars

\* C15 witness: an owner change of app.f was classified as a Function while
\* the catalog held only a function of another schema.
C15_Witness ==
    /\ Len(dump) >= 2 /\ dump[1] = S_function_api /\ dump[2] = S_fowner /\ pos = 2
    /\ nodes = <<Function("api", "f", S_function_api), Function("app", "f", S_fowner)>>

----------------------------------------------------------------------------
\* the catalog holds an entity of this kind for the relation name app.users
MatchesUsers(kind) ==
    \E i \in 1..Len(nodes) :
        nodes[i].kind = kind /\ nodes[i].schema = "app" /\ nodes[i].name = "users"

\* the step appended exactly one entity, of this kind, for app.users
EmittedUsers(kind) ==
    /\ pc' = "classify"
    /\ Len(nodes') = Len(nodes) + 1
    /\ SubSeq(nodes', 1, Len(nodes)) = nodes
    /\ Last(nodes').kind = kind
    /\ Last(nodes').schema = "app" /\ Last(nodes').name = "users"

TableThenView ==
    IF MatchesUsers("Table") THEN EmittedUsers("Table")
    ELSE IF MatchesUsers("View") THEN EmittedUsers("View")
    ELSE Failed(ClassificationFailure)

\* C16 as stated: a comment on, a grant on and an owner change of the table
\* or view app.users emit a Table entity if the catalog holds a Table
\* app.users, otherwise a View entity if it holds a View app.users, and
\* otherwise fail the run without appending.
C16_TableThenView ==
    [][(Classifying(S_comment) \/ Classifying(S_view_comment)
        \/ Classifying(S_grant) \/ Classifying(S_owner)) => TableThenView]_vars

\* C16 amended: that resolution is the one of COMMENT ON TABLE and of a table
\* grant, failing with an unresolved reference when neither matches.  An
\* owner change (ALTER TABLE .. OWNER TO) is dropped: no lookup, no entity,
\* no failure.  COMMENT ON VIEW has a target type outside the dispatch set
\* and aborts the run whatever the catalog holds.
C16_RelationTargetByStatement ==
    [][/\ (Classifying(S_comment) \/ Classifying(S_grant)) =>
              IF MatchesUsers("Table") THEN EmittedUsers("Table")
              ELSE IF MatchesUsers("View") THEN EmittedUsers("View")
              ELSE Failed({"No table or view found"})
       /\ Classifying(S_owner) => pc' = "classify" /\ pos' = pos + 1 /\ nodes' = nodes
       /\ Classifying(S_view_comment) => Failed({"Unsupported comment type"})]_vars

\* C16 witness: with only a view app.users in the catalog, a comment was
\* classified as a View and an owner change was dropped.
C16_Witness ==
    /\ dump = <<S_view, S_comment, S_owner>> /\ pos = 3
    /\ Len(nodes) = 2 /\ nodes[1] = View("app", "users", S_view)
    /\ nodes[2].kind = "View" /\ nodes[2].sql[1] = "COMMENT ON VIEW"

----------------------------------------------------------------------------
\* the catalog holds a Sequence entity for app.seq
SeqInCatalog ==
    \E i \in 1..Len(nodes) :
        nodes[i].kind = "Sequence" /\ nodes[i].schema = "app" /\ nodes[i].name = "seq"

\* the step appended exactly this entity
Appends(n) == pc' = "classify" /\ nodes' = Append(nodes, n)

\* C17 as stated: a sequence-ownership statement or a sequence grant for
\* app.seq, when no earlier statement produced a Sequence app.seq, aborts
\* the run with an unresolved reference and appends nothing.
C17_UnknownSequenceFails ==
    [][((Classifying(S_owned) \/ Classifying(S_owned_orders) \/ Classifying(S_seq_grant))
        /\ ~SeqInCatalog)
       => Failed(UnresolvedReference)]_vars

\* C17 amended: sequence-ownership statements and sequence grants are
\* classified without a lookup: each appends a Sequence entity (with the
\* owning table of the statement, or with none for a grant) whether or not
\* the sequence is in the catalog.  A sequence that stays without owning
\* table fails only when the writer resolves its path, and does not fail if
\* any statement of the dump, earlier or later, gives app.seq a table.
C17_SequenceReferenceUnchecked ==
    [][/\ Classifying(S_owned) => Appends(Sequence(<<"users">>, "app", "seq", S_owned))
       /\ Classifying(S_owned_orders) =>
              Appends(Sequence(<<"orders">>, "app", "seq", S_owned_orders))
       /\ Classifying(S_seq_grant) => Appends(Sequence(<<>>, "app", "seq", S_seq_grant))
       /\ (pc = "write" /\ pc' = "panic") =>
              /\ nodes[idx + 1].kind = "Sequence"
              /\ \A i \in 1..Len(nodes) :
                    (nodes[i].kind = "Sequence" /\ nodes[i].schema = nodes[idx + 1].schema
                     /\ nodes[i].name = nodes[idx + 1].name) => nodes[i].table = <<>>]_vars

\* C17 witness: a grant on app.seq and then its ownership, with no statement
\* creating the sequence, were classified and both written to the file of
\* the owning table.
C17_Witness ==
    /\ dump = <<S_seq_grant, S_owned>> /\ pc = "done"
    /\ Len(nodes) = 2 /\ ret = <<UsersFile, UsersFile>> /\ wrote = <<TRUE, TRUE>>

----------------------------------------------------------------------------
\* the entity the writer is about to handle is a Sequence without owning
\* table, and no Sequence entity of its schema and name in the catalog has one
Ownerless ==
    /\ pc = "write" /\ idx < Len(nodes)
    /\ nodes[idx + 1].kind = "Sequence" /\ nodes[idx + 1].table = <<>>
    /\ \A i \in 1..Len(nodes) :
          (nodes[i].kind = "Sequence" /\ nodes[i].schema = nodes[idx + 1].schema
           /\ nodes[i].name = nodes[idx + 1].name) => nodes[i].table = <<>>

\* C18: resolving the path of a Sequence entity for which no owning table is
\* found anywhere in the catalog is fatal, and no file or directory is
\* created and no file appended to for that entity.
C18_OwnerlessSequenceFails ==
    [][Ownerless =>
        /\ pc' = "panic" /\ err' = "No table found for sequence"
        /\ fs' = fs /\ dirs' = dirs /\ ret' = ret /\ idx' = idx]_vars

\* C18 witness: the writer has aborted on a sequence that a grant introduced
\* and no statement gave a table, after writing the table before it.
C18_Witness ==
    /\ pc = "panic" /\ err = "No table found for sequence"
    /\ dump = <<S_table, S_seq_grant>> /\ idx = 1
    /\ DOMAIN fs = {UsersFile} /\ fs[UsersFile] = S_table \o <<";", NL>>

----------------------------------------------------------------------------
\* aggregate and operator definitions take the schema of the name, or public
DefinitionsDefaultSchema ==
    /\ Classifying(S_aggregate) => Appends(Aggregate("app", "f", S_aggregate))
    /\ Classifying(S_aggregate_bare) => Appends(Aggregate("public", "f", S_aggregate_bare))
    /\ Classifying(S_operator) => Appends(Operator("app", "===", S_operator))
    /\ Classifying(S_operator_bare) => Appends(Operator("public", "===", S_operator_bare))

\* owner changes whose name carries a schema take that schema
QualifiedOwnerChanges ==
    /\ Classifying(S_aggregate_owner) => Appends(Aggregate("app", "f", S_aggregate_owner))
    /\ Classifying(S_operator_owner) => Appends(Operator("app", "===", S_operator_owner))

\* C19 as stated: an aggregate or operator definition and an aggregate or
\* operator owner change are classified into an Aggregate or Operator entity
\* of schema public when the name carries no schema, and of the name's
\* schema when it carries one.
C19_DefaultSchema ==
    [][/\ DefinitionsDefaultSchema
       /\ QualifiedOwnerChanges
       /\ Classifying(S_aggregate_owner_bare) =>
              Appends(Aggregate("public", "f", S_aggregate_owner_bare))
       /\ Classifying(S_operator_owner_bare) =>
              Appends(Operator("public", "===", S_operator_owner_bare))]_vars

\* C19 amended: the default schema is that of definitions only.  An owner
\* change whose name carries a schema yields an entity of that schema; an
\* owner change whose name carries none aborts the run (the name list must
\* have two items) and appends nothing.
C19_DefaultSchemaOfDefinitions ==
    [][/\ DefinitionsDefaultSchema
       /\ QualifiedOwnerChanges
       /\ Classifying(S_aggregate_owner_bare) =>
              Failed({"Expected 2 items in aggregate owner list"})
       /\ Classifying(S_operator_owner_bare) =>
              Failed({"Expected 2 items in operator owner list"})]_vars

\* C19 witness: an aggregate defined without schema is in the catalog under
\* public, and the owner change of an operator named without schema has
\* aborted the run.
C19_Witness ==
    /\ dump = <<S_aggregate_bare, S_operator_owner_bare>>
    /\ nodes = <<Aggregate("public", "f", S_aggregate_bare)>>
    /\ pc = "panic" /\ err = "Expected 2 items in operator owner list"

----------------------------------------------------------------------------
\* C20 as stated: the path of every entity of the catalog has been resolved,
\* and any failure of resolution raised, before the first file is created or
\* appended to.
C20_ResolvedBeforeWriting ==
    (\E i \in 1..Len(wrote) : wrote[i]) =>
        \A j \in 1..Len(nodes) : ~path(nodes[j], nodes).panic

\* C20 amended: the writer resolves the path of an entity in the same step
\* in which it writes that entity, the entities taken in catalog order; a
\* failure to resolve the path of entity k is raised when the entities
\* before k have been resolved and written, and ends the run there.
C20_ResolvedWhileWriting ==
    [][(pc = "write" /\ idx < Len(nodes)) =>
        /\ Len(ret) = idx
        /\ \A i \in 1..idx :
              ret[i] \in DOMAIN fs /\ Contains(fs[ret[i]], Rendered(nodes[i]))
        /\ IF path(nodes[idx + 1], nodes).panic
           THEN pc' = "panic" /\ fs' = fs /\ ret' = ret
           ELSE /\ ret' = Append(ret, path(nodes[idx + 1], nodes).path)
                /\ ret'[idx + 1] \in DOMAIN fs'
                /\ Contains(fs'[ret'[idx + 1]], Rendered(nodes[idx + 1]))]_vars

\* C20 witness: the run has aborted on the path of the second entity with
\* the file of the first entity written.
C20_Witness ==
    /\ pc = "panic" /\ err = "No table found for sequence"
    /\ idx = 1 /\ wrote = <<TRUE>> /\ ret[1] \in DOMAIN fs
    /\ path(nodes[2], nodes).panic
----------------------------------------------------------------------------
\* the text t1 and its line break occur in content at or after position from,
\* and the text t2 and its line break occur after that occurrence's end
InOrder(content, from, t1, t2) ==
    \E a, b \in 1..Len(content) :
        /\ from <= a
        /\ a + Len(t1) + 1 <= b
        /\ b + Len(t2) <= Len(content)
        /\ SubSeq(content, a, a + Len(t1)) = t1 \o <<NL>>
        /\ SubSeq(content, b, b + Len(t2)) = t2 \o <<NL>>

\* C21: of two entities of the catalog that resolve to the same path and were
\* both appended in the run, the rendered text of the earlier one stands in
\* the file before the rendered text of the later one, both after the content
\* the file had before the writer was called.
C21_SamePathInCatalogOrder ==
    \A i, j \in 1..Len(wrote) :
        (i < j /\ wrote[i] /\ wrote[j] /\ ret[i] = ret[j]) =>
            LET p == ret[i]
                old == IF p \in DOMAIN fs0 THEN Len(fs0[p]) ELSE 0
            IN  /\ p \in DOMAIN fs
                /\ InOrder(fs[p], old + 1, Rendered(nodes[i]), Rendered(nodes[j]))

\* C21 witness: a run has appended three entities to one file that held
\* other text before, the second and third entity in the file's last lines.
C21_Witness ==
    /\ pc = "done" /\ run = 1 /\ wrote = <<TRUE, TRUE, TRUE>>
    /\ ret[1] = ret[2] /\ ret[2] = ret[3] /\ ret[1] \in DOMAIN fs0
    /\ nodes[1] # nodes[2] /\ nodes[2] # nodes[3]

----------------------------------------------------------------------------
\* C22: when write_nodes has returned, the file at the resolved path of every
\* entity of the catalog exists and contains the entity's statement with its
\* terminating semicolon, whatever the tree held before the call.
C22_NoStatementLost ==
    pc = "done" =>
        \A i \in 1..Len(nodes) :
            LET r == path(nodes[i], nodes)
            IN  /\ ~r.panic
                /\ r.path \in DOMAIN fs
                /\ Contains(fs[r.path], Rendered(nodes[i]))

\* C22 witness: a call has returned that skipped an entity whose text an
\* earlier entity's text contains, and appended to a file that cannot be read
\* as text.
C22_Witness ==
    /\ pc = "done" /\ run = 1
    /\ \E i \in 1..Len(wrote) : ~wrote[i] /\ ret[i] \notin DOMAIN fs0
    /\ \E i \in 1..Len(wrote) :
          wrote[i] /\ ret[i] \in DOMAIN fs0 /\ ~ValidUtf8(fs0[ret[i]])

----------------------------------------------------------------------------
\* C23: in a run of the program, an entity whose rendered text occurs in the
\* text its target file holds when the writer reaches it (the same statement
\* classified earlier, or a longer one that it is a fragment of) is not
\* appended: the file is left as it is, and fewer texts have been appended to
\* the file than entities resolve to it.
C23_DedupBySubstring ==
    [][WriterStepDone =>
        LET n == nodes[idx + 1]
            p == ret'[idx + 1]
        IN  (p \in DOMAIN fs /\ Contains(fs[p], Rendered(n))) =>
                /\ fs' = fs
                /\ wrote' = Append(wrote, FALSE)
                /\ Cardinality({i \in 1..Len(ret') : ret'[i] = p /\ wrote'[i]})
                      < Cardinality({i \in 1..Len(ret') : ret'[i] = p})]_vars

\* C23 witness: of SELECT 2 UNION SELECT 1 and then SELECT 1, both resolving
\* to index.sql, only the first was appended; the text of the second stands
\* in the file as the end of the first one's line.
C23_Witness ==
    /\ dump = <<S_union, S_select>> /\ pc = "done"
    /\ ret = << <<"index.sql">>, <<"index.sql">> >> /\ wrote = <<TRUE, FALSE>>
    /\ fs[<<"index.sql">>] = S_union \o <<";", NL>>
    /\ Contains(fs[<<"index.sql">>], Rendered(nodes[2]))

----------------------------------------------------------------------------
\* the number of times ADD CONSTRAINT occurs in a text
Occurrences(text) == Cardinality({i \in 1..Len(text) : text[i] = "ADD CONSTRAINT"})

\* parse takes the split branch on this text
TakesSplit(text) ==
    LET node == parse_sql(text)
    IN  /\ node.type = "AlterTableStmt"
        /\ node.cmds[1].subtype = "AtAddConstraint"
        /\ Len(node.cmds) > 1

\* the statements parse rebuilds from the pieces of a text it splits
Synthetic(text) ==
    LET commands == split_commands(text)
    IN  {full_sql(split_begin(text), commands[k]) :
            k \in {j \in 1..Len(commands) : commands[j] # <<>>}}

\* C24: every statement that parse rebuilds from one piece of a statement it
\* splits holds ADD CONSTRAINT exactly once and is not split again when it is
\* classified, so the calls of parse nest at most one deep and the
\* classification of the statement ends with a catalog or a panic of parse.
C24_SplitOnlyOnce ==
    [][(pc = "classify" /\ pos < Len(dump) /\ TakesSplit(dump[pos + 1])) =>
        /\ \A t \in Synthetic(dump[pos + 1]) : Occurrences(t) = 1 /\ ~TakesSplit(t)
        /\ err' # "stack overflow"]_vars

----------------------------------------------------------------------------
\* C25: a TriggerFunction f of schema s, when two or more Trigger entities of
\* the catalog name f and all of them are on one table t, was resolved to
\* s/triggers/t/f.sql.
C25_DistinctTablesCounted ==
    \A i \in 1..Len(ret) :
        nodes[i].kind = "TriggerFunction" =>
            LET f == nodes[i].name
                s == nodes[i].schema
                users == {j \in 1..Len(nodes) :
                            nodes[j].kind = "Trigger" /\ nodes[j].function = f}
            IN  \A u \in users :
                    (/\ Cardinality(users) >= 2
                     /\ \A j \in users :
                           /\ nodes[j].table = nodes[u].table
                           /\ nodes[j].schema = nodes[u].schema)
                    => ret[i] = <<s, "triggers", nodes[u].table, f \o ".sql">>

\* C25 witness: the triggers trg and trg2, both on app.users, name f; the
\* function was written to app/triggers/users/f.sql.
C25_Witness ==
    /\ pc = "done" /\ Len(nodes) = 3
    /\ \E i, j, k \in 1..3 :
          /\ nodes[i].kind = "TriggerFunction"
          /\ nodes[j] = E_trigger("app", "trg", "users")
          /\ nodes[k] = E_trigger("app", "trg2", "users")
          /\ ret[i] = <<"app", "triggers", "users", "f.sql">>

----------------------------------------------------------------------------
\* the catalog without the Trigger entities of schemas other than s
WithoutForeignTriggers(cat, s) ==
    LET keep(e) == e.kind # "Trigger" \/ e.schema = s
    IN  SelectSeq(cat, keep)

\* C26: the path a TriggerFunction of schema s was resolved to is the path it
\* resolves to in the catalog without the Trigger entities of other schemas,
\* and a table directory in it is the table of a Trigger of schema s.
C26_SchemaIsolation ==
    \A i \in 1..Len(ret) :
        nodes[i].kind = "TriggerFunction" =>
            LET s == nodes[i].schema
            IN  /\ ret[i] = path(nodes[i], WithoutForeignTriggers(nodes, s)).path
                /\ Len(ret[i]) = 4 =>
                      \E j \in 1..Len(nodes) :
                          /\ nodes[j].kind = "Trigger" /\ nodes[j].schema = s
                          /\ nodes[j].function = nodes[i].name
                          /\ nodes[j].table = ret[i][3]

----------------------------------------------------------------------------
\* the lines the writer has appended to the file at p for the first k
\* entities of the catalog
RECURSIVE AppendedLines(_, _)
AppendedLines(p, k) ==
    IF k = 0 THEN <<>>
    ELSE AppendedLines(p, k - 1)
            \o (IF ret[k] = p /\ wrote[k] THEN Rendered(nodes[k]) \o <<NL>> ELSE <<>>)

\* C27: when the Trigger entities naming f (there is one at least) are all
\* of schema s and on one table t, every TriggerFunction (s, f) and each of
\* those Triggers was resolved to s/triggers/t/f.sql, and after the run that
\* file holds their appended statements in catalog order.
C27_CoLocation ==
    \A i \in 1..Len(ret) :
        nodes[i].kind = "TriggerFunction" =>
            LET f == nodes[i].name
                s == nodes[i].schema
                users == {j \in 1..Len(nodes) :
                            nodes[j].kind = "Trigger" /\ nodes[j].function = f}
            IN  \A u \in users :
                    (\A j \in users :
                        nodes[j].schema = s /\ nodes[j].table = nodes[u].table)
                    => LET p == <<s, "triggers", nodes[u].table, f \o ".sql">>
                       IN  /\ ret[i] = p
                           /\ u <= Len(ret) => ret[u] = p
                           /\ pc = "done" => fs[p] = AppendedLines(p, Len(ret))

\* C27 witness: the function app.f, its comment and a trigger on app.users
\* that executes it were written, in this order, to app/triggers/users/f.sql.
C27_Witness ==
    /\ dump = <<S_function, S_fcomment, S_trigger("app", "trg", "users")>>
    /\ pc = "done" /\ wrote = <<TRUE, TRUE, TRUE>>
    /\ nodes[2].kind = "TriggerFunction" /\ nodes[3].kind = "Trigger"
    /\ DOMAIN fs = {<<"app", "triggers", "users", "f.sql">>}
    /\ Len(fs[<<"app", "triggers", "users", "f.sql">>])
          = Len(sql(nodes[1])) + Len(sql(nodes[2])) + Len(sql(nodes[3])) + 3

----------------------------------------------------------------------------
\* the entries of the catalog for the sequence of entry i that carry a table
OwningEntries(i) ==
    {j \in 1..Len(nodes) :
        /\ nodes[j].kind = "Sequence"
        /\ nodes[j].schema = nodes[i].schema /\ nodes[j].name = nodes[i].name
        /\ nodes[j].table # <<>>}

\* C28 as stated: any two Sequence entities of the same (schema, name) were
\* resolved to the same path, also when ownership entries for the sequence
\* name different tables.
C28_OneFilePerSequence ==
    \A i, j \in 1..Len(ret) :
        (/\ nodes[i].kind = "Sequence" /\ nodes[j].kind = "Sequence"
         /\ nodes[i].schema = nodes[j].schema /\ nodes[i].name = nodes[j].name)
        => ret[i] = ret[j]

\* C28 amended: an entry that carries a table was resolved to the file of
\* its own table, an entry without one to the file of the table of the first
\* owning entry in catalog order; two entries of one sequence were resolved
\* to the same path when all owning entries of the sequence name one table.
C28_OneFilePerOwningTable ==
    \A i \in 1..Len(ret) :
        nodes[i].kind = "Sequence" =>
            LET s == nodes[i].schema
                owners == OwningEntries(i)
            IN  /\ owners # {}
                /\ nodes[i].table # <<>> =>
                      ret[i] = <<s, "tables", nodes[i].table[1] \o ".sql">>
                /\ nodes[i].table = <<>> =>
                      ret[i] = <<s, "tables", nodes[Min(owners)].table[1] \o ".sql">>
                /\ (\A a, b \in owners : nodes[a].table = nodes[b].table) =>
                      \A j \in 1..Len(ret) :
                          (/\ nodes[j].kind = "Sequence"
                           /\ nodes[j].schema = s /\ nodes[j].name = nodes[i].name)
                          => ret[j] = ret[i]

\* C28 witness: app.seq is created, then owned by app.orders.id, then by
\* app.users.id: the first two entries are in the file of orders, the third
\* in the file of users.
C28_Witness ==
    /\ dump = <<S_seq, S_owned_orders, S_owned>> /\ pc = "done"
    /\ ret = << <<"app", "tables", "orders.sql">>, <<"app", "tables", "orders.sql">>,
                UsersFile >>

----------------------------------------------------------------------------
\* the run has failed in the writer
WriterFailed == pc = "panic" /\ err = "No table found for sequence"

\* the tree as the driver's position in the run determines it
TreeFollowsRun ==
    /\ (pc = "classify" \/ (pc = "panic" /\ ~WriterFailed)) =>
          fs = fs0 /\ dirs = DirsOf(fs0) /\ idx = 0
    /\ (pc \in {"write", "done"} \/ WriterFailed) =>
          /\ pos = Len(dump)
          /\ DOMAIN fs = {ret[i] : i \in 1..Len(ret)}
          /\ \A p \in DOMAIN fs : fs[p] = AppendedLines(p, Len(ret))

\* a step that changes the tree is the removal after the last statement was
\* classified, or a step of the writer
TreeChangesInOrder ==
    (fs' # fs \/ dirs' # dirs) =>
        \/ /\ pc = "classify" /\ pos = Len(dump) /\ err = "" /\ pc' = "write"
           /\ fs' = EmptyTree /\ dirs' = {}
        \/ /\ pc = "write" /\ idx' = idx + 1

\* C29: the tree is as it was found as long as the dump is being classified
\* and after a failure of classification; the tree changes only when the
\* whole dump has been classified without failure, first by the removal of
\* the directory and then by the writer; from then on, also after a failure
\* of the writer, the tree holds the files of the entities written so far in
\* this run with the lines appended for them, and nothing else.
C29_ClassifyClearWrite == []TreeFollowsRun /\ [][TreeChangesInOrder]_vars

\* C29 witness: a run that found an old file in the directory has failed in
\* the writer after its first entity; the old file is gone and the tree
\* holds the file of that entity.
C29_Witness ==
    /\ WriterFailed /\ fs0 = StaleTree /\ idx = 1
    /\ DOMAIN fs = {ret[1]} /\ UsersFile \notin DOMAIN fs

====
